---------------------------- MODULE Spec2Model ----------------------------
(***************************************************************************)
(* A model of the upstream command-line client: src/upstream/clitool.py    *)
(* (size parsing, shard planning, the upload and download commands) and     *)
(* src/upstream/streamer.py (class Streamer: connectivity probe, upload,    *)
(* download).                                                               *)
(*                                                                          *)
(* Three specifications share the module:                                   *)
(*   SpecPlan   calculate_shards applied to drawn sizes                     *)
(*   SpecParse  parse_shard_size applied to drawn strings                   *)
(*   Spec       the program in use: either a client constructs a Streamer   *)
(*              and calls upload and download on it, or main() runs one     *)
(*              command with drawn arguments against a drawn server         *)
(*                                                                          *)
(* clitool.py calls Streamer.check_path, streamer.upload(file, start_pos=,  *)
(* shard_size=, callback=) and streamer.download(shard, slicesize=); class  *)
(* Streamer of streamer.py defines _upload_check_path, upload(filepath) and *)
(* download(chunk, dest, chunksize). The model keeps both as they are: a    *)
(* lookup or a call that does not bind raises AttributeError or TypeError.  *)
(***************************************************************************)
EXTENDS Integers, Sequences, FiniteSets, TLC

VARIABLES
    planIn,     \* calculate_shards: [file_size, shard_size]
    planOut,    \* calculate_shards: Pending or the value returned
    parseIn,    \* parse_shard_size: the argument string, a sequence of characters
    parseOut,   \* parse_shard_size: Pending or the outcome
    entry,      \* how the program is entered: "api" (a client of class
                \* Streamer), "cli" (main()), "" (neither)
    world,          \* the world: local files, server store, requests, output
    streamer,   \* "none", "instance" (__init__ returned), "raised"
    probed,     \* the outcome of the connectivity probe: "none", "ok", "failed"
    lastCall,       \* the lastCall call on the Streamer and how it ended
    ncalls,     \* upload and download calls made on the instance
    dlSeq,      \* the shards asked for, in order, by download calls to "d"
    dlErr,      \* whether the server refused one of them
    argv,       \* main(): the parsed command line
    server,        \* main(): the server's behaviour during the run
    cliOut      \* main(): Pending or how the command ended

planVars == <<planIn, planOut>>
parseVars == <<parseIn, parseOut>>
apiVars == <<streamer, probed, lastCall, ncalls, dlSeq, dlErr>>
cliVars == <<argv, server, cliOut>>
vars == <<planIn, planOut, parseIn, parseOut, entry, world, streamer, probed,
          lastCall, ncalls, dlSeq, dlErr, argv, server, cliOut>>

\* ------------------------------------------------------------------ bounds

MaxFileSize == 9
MaxShardSize == 6
MaxLen == 3
MaxFileLen == 3
MaxCalls == 4
MaxUris == 2

\* ------------------------------------------------------------------ values

Pending == [kind |-> "pending"]
NoneValue == [kind |-> "None"]
IntValue(n) == [kind |-> "int", value |-> n]

\* A response body: the JSON of a created shard (its hash), or raw error text.
NoText == [json |-> FALSE, filehash |-> 0, raw |-> ""]
JsonText(h) == [json |-> TRUE, filehash |-> h, raw |-> ""]
RawText(t) == [json |-> FALSE, filehash |-> 0, raw |-> t]

\* An exception: its class and what its constructor was given. msg is the
\* message (a format string keeps its %s; the values formatted into it are
\* status and reason); status 0, reason "" and NoText stand for absent.
Exc(name, msg, status, reason, text) ==
    [kind |-> "raise", exc |-> name, msg |-> msg,
     status |-> status, reason |-> reason, text |-> text]
Raised(name) == Exc(name, "", 0, "", NoText)
IsRaise(r) == r.kind = "raise"

Min(a, b) == IF a <= b THEN a ELSE b

\* ------------------------------------------------- clitool.calculate_shards

\* A planner that rounds the shard count down.
num_shards_floor(file_size, shard_size) == file_size \div shard_size

\* math.ceil(file_size / float(shard_size)), for sizes a double holds exactly
\* (below 2^53) the integer ceiling of the quotient.
num_shards(file_size, shard_size) ==
    (file_size + shard_size - 1) \div shard_size

\* The loop of lines 119-125: n more tuples, starting at (start, end).
RECURSIVE shard_loop(_, _, _, _, _)
shard_loop(n, start, end, shard_size, shards) ==
    IF n = 0 THEN shards
    ELSE shard_loop(n - 1, end, end + shard_size, shard_size,
                    Append(shards, <<start, end>>))

\* The list calculate_shards returns; a shard size of 0 divides by zero.
calculate_shards(file_size, shard_size) ==
    IF shard_size = 0 THEN Raised("ZeroDivisionError")
    ELSE [kind |-> "list",
          value |-> shard_loop(num_shards(file_size, shard_size),
                               0, shard_size, shard_size, <<>>)]

PlanInit ==
    /\ planIn \in [file_size : 0..MaxFileSize, shard_size : 0..MaxShardSize]
    /\ planOut = Pending

PlanIdle ==
    /\ planIn = [file_size |-> 0, shard_size |-> 0]
    /\ planOut = Pending

Plan ==
    /\ planOut = Pending
    /\ planOut' = calculate_shards(planIn.file_size, planIn.shard_size)
    /\ UNCHANGED <<planIn, parseVars, entry, world, apiVars, cliVars>>

\* ------------------------------------------------- clitool.parse_shard_size

Digits == {"0", "1", "2"}
Chars == Digits \cup {"b", "k", "M", "x"}

DigitValue(c) == CASE c = "0" -> 0 [] c = "1" -> 1 [] c = "2" -> 2

\* str.lower() on one character of Chars.
Lower(c) == IF c = "M" THEN "m" ELSE c

\* str.isdigit(): non-empty and every character a digit.
isdigit(s) == Len(s) > 0 /\ \A i \in 1..Len(s) : s[i] \in Digits

\* int(s) for a digit string.
RECURSIVE DecimalValue(_)
DecimalValue(s) ==
    IF Len(s) = 0 THEN 0
    ELSE 10 * DecimalValue(SubSeq(s, 1, Len(s) - 1)) + DigitValue(s[Len(s)])

\* int(s): ValueError unless s is a digit string (Chars has no sign or blank).
int(s) == IF isdigit(s) THEN IntValue(DecimalValue(s)) ELSE Raised("ValueError")

\* SizeHelpers of upstream/file.py
kib_to_bytes(n) == n * 1024
mib_to_bytes(n) == n * 1024 * 1024

parse_shard_size(size) ==
    IF isdigit(size) THEN int(size)
    ELSE IF Len(size) = 0 THEN Raised("IndexError")
    ELSE LET last == Lower(size[Len(size)])
             number == SubSeq(size, 1, Len(size) - 1)
         IN  IF last \notin {"b", "k", "m"} THEN NoneValue
             ELSE IF IsRaise(int(number)) THEN int(number)
             ELSE IF last = "b" THEN int(number)
             ELSE IF last = "k" THEN IntValue(kib_to_bytes(int(number).value))
             ELSE IntValue(mib_to_bytes(int(number).value))

Strings(n) == UNION {[1..k -> Chars] : k \in 0..n}

ParseInit ==
    /\ parseIn \in Strings(MaxLen)
    /\ parseOut = Pending

ParseIdle ==
    /\ parseIn = <<>>
    /\ parseOut = Pending

Parse ==
    /\ parseOut = Pending
    /\ parseOut' = parse_shard_size(parseIn)
    /\ UNCHANGED <<planVars, parseIn, entry, world, apiVars, cliVars>>


\* ------------------------------------------------------------ the environment

Bytes == {"a", "b"}
Contents(n) == UNION {[1..k -> Bytes] : k \in 0..n}

\* A file system entry.
NoFile == [exists |-> FALSE, data |-> <<>>]
File(data) == [exists |-> TRUE, data |-> data]

\* The paths of the model: "f" the source file, "d" a destination in the
\* working directory, "u" the name uuid4 draws. "nodir/d" lies in a directory
\* that does not exist, "nofile" names nothing. "" is no path (None).
Paths == {"f", "d", "u"}
exists(fs, p) == p \in Paths /\ fs[p].exists
isfile(fs, p) == exists(fs, p)
split_head(p) == IF p = "nodir/d" THEN "nodir" ELSE ""
isdir(p) == p = "cwd"

\* The world the program acts on: the local files, the shards the server
\* holds (a shard's hash is its position), the requests sent so far, and
\* what was written to standard output and standard error.
World(fs, store, net, out, err) ==
    [fs |-> fs, store |-> store, net |-> net, out |-> out, err |-> err]

Ret(w, r) == [w |-> w, r |-> r]

Send(w, req) == [w EXCEPT !.net = Append(@, req)]
Probe == [op |-> "probe", body |-> <<>>, uri |-> 0]
Post(body) == [op |-> "POST", body |-> body, uri |-> 0]
Get(uri) == [op |-> "GET", body |-> <<>>, uri |-> uri]

Reason(status) ==
    CASE status = 200 -> "OK"
      [] status = 201 -> "Created"
      [] status = 402 -> "Payment Required"
      [] status = 404 -> "Not Found"
      [] status = 500 -> "Internal Server Error"
      [] status = 503 -> "Service Unavailable"

Response(status, text, content) ==
    [kind |-> "response", status_code |-> status, reason |-> Reason(status),
     text |-> text, content |-> content]

ErrorText == RawText("oops")

\* The web-core API, POST /api/upload: 201 stores the posted bytes and answers
\* the JSON of the new shard; any other status answers an error text.
ServerPost(store, body, status) ==
    IF status = 201
    THEN [store |-> Append(store, body),
          resp |-> Response(201, JsonText(Len(store) + 1), <<>>)]
    ELSE [store |-> store, resp |-> Response(status, ErrorText, <<>>)]

\* GET /api/download/<uri>: 200 streams the stored bytes.
ServerGet(store, uri, status) ==
    IF status = 200 /\ uri \in 1..Len(store)
    THEN Response(200, NoText, store[uri])
    ELSE Response(IF status = 200 THEN 404 ELSE status, ErrorText, <<>>)

\* upstream/chunk.py: Chunk, and Chunk.from_json on a response text.
Chunk(filehash) ==
    [kind |-> "chunk", filehash |-> filehash, filename |-> "", uri |-> filehash]
from_json(text) == Chunk(text.filehash)

\* --------------------------------------------------------- streamer.Streamer

\* A probe whose failure is swallowed.
check_connectivity_swallow(w, reachable) == Ret(Send(w, Probe), NoneValue)

\* check_connectivity: urlopen(self.server, timeout=1); URLError becomes
\* ConnectError.
check_connectivity(w, reachable) ==
    IF reachable THEN Ret(Send(w, Probe), NoneValue)
    ELSE Ret(Send(w, Probe),
             Exc("ConnectError", "Could not connect to server.", 0, "", NoText))

\* Streamer.__init__: the instance is returned unless the probe raised.
Streamer_init(w, reachable) ==
    LET c == check_connectivity(w, reachable)
    IN  IF IsRaise(c.r) THEN c ELSE Ret(c.w, [kind |-> "Streamer"])

\* _upload_check_path
upload_check_path(w, filepath) ==
    IF isfile(w.fs, filepath) THEN Ret(w, [kind |-> "path", value |-> filepath])
    ELSE Ret(w, Exc("FileError", "%s not a file or not found", 0, "", NoText))

\* _upload_form_encoded: the multipart body is the open file, all of it.
upload_form_encoded(w, filepath, status) ==
    LET v == upload_check_path(w, filepath)
    IN  IF IsRaise(v.r) THEN v
        ELSE LET body == w.fs[v.r.value].data
                 s == ServerPost(w.store, body, status)
             IN  Ret([Send(w, Post(body)) EXCEPT !.store = s.store], s.resp)

\* The status classification of Streamer.upload, lines 57-71.
upload_classify(r) ==
    IF r.status_code = 404
    THEN Exc("ResponseError", "API call not found.", 0, "", NoText)
    ELSE IF r.status_code = 402
    THEN Exc("ResponseError", "Payment required.", 0, "", NoText)
    ELSE IF r.status_code = 500
    THEN Exc("ResponseError", "Server error.", 0, "", NoText)
    ELSE IF r.status_code = 201
    THEN from_json(r.text)
    ELSE Exc("ResponseError", "Received status code %s %s",
             r.status_code, r.reason, NoText)

\* Streamer.upload(filepath)
Streamer_upload(w, filepath, status) ==
    LET p == upload_form_encoded(w, filepath, status)
    IN  IF IsRaise(p.r) THEN p ELSE Ret(p.w, upload_classify(p.r))

\* resp.iter_content(chunksize) written piece by piece to the open file.
RECURSIVE write_chunks(_, _, _)
write_chunks(data, content, chunksize) ==
    IF Len(content) = 0 THEN data
    ELSE LET n == Min(chunksize, Len(content))
         IN  write_chunks(data \o SubSeq(content, 1, n),
                          SubSeq(content, n + 1, Len(content)), chunksize)

\* The destination checks of Streamer.download, lines 88-104: the save path,
\* or the FileError, or the AttributeError of os.abspath when dest is None.
download_savepath(w, dest) ==
    IF dest # ""
    THEN IF exists(w.fs, dest)
         THEN Exc("FileError", "%s already exists", 0, "", NoText)
         ELSE LET path == IF split_head(dest) = "" THEN "cwd" ELSE split_head(dest)
              IN  IF ~isdir(path)
                  THEN Exc("FileError", "%s is not a valid path", 0, "", NoText)
                  ELSE [kind |-> "path", value |-> dest]
    ELSE Raised("AttributeError")

\* The request of Streamer.download, lines 105-112: 200 writes the body to
\* savepath opened 'wb' and returns True; any other status falls off the end.
download_fetch(w, chunk, savepath, chunksize, status) ==
    LET resp == ServerGet(w.store, chunk.uri, status)
        sent == Send(w, Get(chunk.uri))
    IN  IF resp.status_code = 200
        THEN Ret([sent EXCEPT !.fs[savepath] =
                      File(write_chunks(<<>>, resp.content, chunksize))],
                 [kind |-> "True"])
        ELSE Ret(sent, NoneValue)

\* A download that asks the server before it looks at the destination.
Streamer_download_late_check(w, chunk, dest, chunksize, status) ==
    IF chunk.filehash = 0 THEN Ret(w, Raised("ChunkError"))
    ELSE LET sp == download_savepath(w, dest)
         IN  IF IsRaise(sp) THEN Ret(Send(w, Get(chunk.uri)), sp)
             ELSE download_fetch(w, chunk, sp.value, chunksize, status)

\* Streamer.download(chunk, dest, chunksize)
Streamer_download(w, chunk, dest, chunksize, status) ==
    IF chunk.filehash = 0 THEN Ret(w, Raised("ChunkError"))
    ELSE LET sp == download_savepath(w, dest)
         IN  IF IsRaise(sp) THEN Ret(w, sp)
             ELSE download_fetch(w, chunk, sp.value, chunksize, status)


\* ------------------------------------------------------------------- clitool

Out(w, msg, n) == [w EXCEPT !.out = Append(@, [msg |-> msg, n |-> n])]
Err(w, msg, n) == [w EXCEPT !.err = Append(@, [msg |-> msg, n |-> n])]

\* What class Streamer of streamer.py defines, and the parameters its upload
\* (line 43) and download (line 73) accept besides self.
StreamerAttrs ==
    {"check_connectivity", "upload", "download", "_upload_check_path",
     "_upload_form_encoded", "_upload_chunked_encoded", "_download_chunk",
     "_filestream"}
upload_params == <<"filepath">>
download_params == <<"chunk", "dest", "chunksize">>

\* A call binds when it names only declared parameters and gives each
\* parameter without a default exactly once; otherwise it raises TypeError.
Binds(params, npositional, keywords) ==
    /\ npositional <= Len(params)
    /\ \A k \in keywords :
           \E i \in (npositional + 1)..Len(params) : params[i] = k

\* check_and_get_dest, lines 63-87: the path to save to, or FileError.
check_and_get_dest(w, dest) ==
    IF dest # ""
    THEN IF exists(w.fs, dest)
         THEN Exc("FileError", "%s already exists", 0, "", NoText)
         ELSE LET path == IF split_head(dest) = "" THEN "cwd" ELSE split_head(dest)
              IN  IF ~isdir(path)
                  THEN Exc("FileError", "%s is not a valid path", 0, "", NoText)
                  ELSE [kind |-> "path", value |-> dest]
    ELSE [kind |-> "path", value |-> "u"]

\* The handler of lines 161-166 and 208-213: print the error, raise again.
report_error(w, e) ==
    Err(Err(Err(w, "Error!", 0), e.reason, e.status), e.text.raw, 0)

\* The server's answer to the i-th transfer of a run.
UploadStatus(env, i) == IF env.failAt = i THEN 500 ELSE 201
DownloadStatus(env, i) == IF env.failAt = i THEN 404 ELSE 200

\* The call of lines 155-160: streamer.upload(args.file, start_pos=start,
\* shard_size=shard_size, callback=callback.callback).
call_upload(w, file, status) ==
    IF Binds(upload_params, 1, {"start_pos", "shard_size", "callback"})
    THEN Streamer_upload(w, file, status)
    ELSE Ret(w, Raised("TypeError"))

\* One turn of the loop of lines 150-171. The progress bar is created by the
\* callback's first call; Streamer.upload never calls it, so bar is None at
\* line 167.
upload_shard(w, args, i, env) ==
    LET c == call_upload(w, args.file, UploadStatus(env, i))
    IN  IF IsRaise(c.r)
        THEN IF c.r.exc = "ResponseError" THEN Ret(report_error(c.w, c.r), c.r)
             ELSE c
        ELSE Ret(c.w, Raised("AttributeError"))

RECURSIVE upload_loop(_, _, _, _, _)
upload_loop(w, args, shards, i, env) ==
    IF i > Len(shards) THEN Ret(w, NoneValue)
    ELSE LET s == upload_shard(w, args, i, env)
         IN  IF IsRaise(s.r) THEN s
             ELSE upload_loop(s.w, args, shards, i + 1, env)

\* The verbose listing of calculate_shards, lines 126-128.
RECURSIVE shard_prints(_, _)
shard_prints(w, n) ==
    IF n = 0 THEN w
    ELSE Out(shard_prints(w, n - 1), "Shard %d - Start: %d; End: %s", n - 1)

\* Lines 147-175, reached once the path check returned.
upload_rest(w, args, shard_size, env) ==
    LET s == Streamer_init(w, env.reachable)
    IN  IF IsRaise(s.r) THEN s
        ELSE LET shards ==
                     IF shard_size.kind = "None" THEN Raised("TypeError")
                     ELSE calculate_shards(Len(w.fs[args.file].data),
                                           shard_size.value)
             IN  IF IsRaise(shards) THEN Ret(s.w, shards)
                 ELSE LET w1 == IF args.verbose
                                THEN Out(shard_prints(s.w, Len(shards.value)),
                                         "File will be uploaded in %d piece(s).",
                                         Len(shards.value))
                                ELSE s.w
                          l == upload_loop(w1, args, shards.value, 1, env)
                      IN  IF IsRaise(l.r) THEN l
                          ELSE Ret(Out(l.w, "upstream download --uri",
                                       Len(shards.value)), NoneValue)

\* upload(args): Streamer.check_path is looked up on the class at line 142;
\* the AttributeError is not a FileError and leaves upload.
cli_upload(w, args, env) ==
    LET shard_size == parse_shard_size(args.shard_size)
    IN  IF IsRaise(shard_size) THEN Ret(w, shard_size)
        ELSE IF "check_path" \notin StreamerAttrs
        THEN Ret(w, Raised("AttributeError"))
        ELSE upload_rest(w, args, shard_size, env)

\* upstream/shard.py: Shard().from_uri(uri)
from_uri(uri) == Chunk(uri)

\* The call of line 207: streamer.download(shard, slicesize=8096).
call_download(w, shard, status) ==
    IF Binds(download_params, 1, {"slicesize"})
    THEN Streamer_download(w, shard, "", 1024, status)
    ELSE Ret(w, Raised("TypeError"))

\* open(savepath, 'ab'): creates the file when it is missing.
open_append(w, savepath) ==
    IF w.fs[savepath].exists THEN w ELSE [w EXCEPT !.fs[savepath] = File(<<>>)]

\* One turn of the loop of lines 200-218.
download_shard(w, args, shard, i, savepath, env) ==
    LET w1 == IF args.verbose THEN Out(w, "Downloading file %s...", shard.uri)
              ELSE Out(w, "Downloading file %d...", i)
        c == call_download(w1, shard, DownloadStatus(env, i))
    IN  IF IsRaise(c.r)
        THEN IF c.r.exc = "ResponseError" THEN Ret(report_error(c.w, c.r), c.r)
             ELSE c
        ELSE LET w2 == open_append(c.w, savepath)
                 w3 == IF args.verbose THEN Out(w2, "Writing shard.", 0) ELSE w2
             IN  IF c.r.kind = "response"
                 THEN Ret([w3 EXCEPT !.fs[savepath].data = @ \o c.r.content],
                          NoneValue)
                 ELSE Ret(w3, Raised("AttributeError"))

\* A loop that goes on to the next shard after a failed one.
RECURSIVE download_loop_continue(_, _, _, _, _, _)
download_loop_continue(w, args, shards, i, savepath, env) ==
    IF i > Len(shards) THEN Ret(w, NoneValue)
    ELSE LET s == download_shard(w, args, shards[i], i, savepath, env)
         IN  download_loop_continue(s.w, args, shards, i + 1, savepath, env)

RECURSIVE download_loop(_, _, _, _, _, _)
download_loop(w, args, shards, i, savepath, env) ==
    IF i > Len(shards) THEN Ret(w, NoneValue)
    ELSE LET s == download_shard(w, args, shards[i], i, savepath, env)
         IN  IF IsRaise(s.r) THEN s
             ELSE download_loop(s.w, args, shards, i + 1, savepath, env)

RECURSIVE creating_shards(_, _)
creating_shards(w, n) ==
    IF n = 0 THEN w ELSE creating_shards(Out(w, "Creating shard.", 0), n - 1)

\* download(args)
cli_download(w, args, env) ==
    LET shards == [i \in 1..Len(args.uri) |-> from_uri(args.uri[i])]
        w1 == IF args.verbose
              THEN Out(creating_shards(w, Len(shards)),
                       "There are %d shards to download.", Len(shards))
              ELSE w
        s == Streamer_init(w1, env.reachable)
    IN  IF IsRaise(s.r) THEN s
        ELSE LET w2 == IF args.verbose THEN Out(s.w, "Connecting to %s...", 0)
                       ELSE s.w
                 d == check_and_get_dest(w2, args.dest)
             IN  IF IsRaise(d) THEN Ret(w2, d)
                 ELSE LET l == download_loop(w2, args, shards, 1, d.value, env)
                      IN  IF IsRaise(l.r) THEN l
                          ELSE Ret(Out(l.w, "Downloaded to %s.", 0),
                                   [kind |-> "path", value |-> d.value])

\* main()
main(w, args, env) ==
    IF args.action = "upload" THEN cli_upload(w, args, env)
    ELSE cli_download(w, args, env)

\* ------------------------------------------------------- the state machine

NoResp == [kind |-> "response", status_code |-> 0, reason |-> "",
           text |-> NoText, content |-> <<>>]
NoCall == [op |-> "", r |-> NoneValue, sent |-> 0, resp |-> NoResp]
NoArgs == [action |-> "", verbose |-> FALSE, shard_size |-> <<>>, file |-> "",
           uri |-> <<>>, dest |-> ""]
NoEnv == [reachable |-> FALSE, failAt |-> 0]
NoWorld == World([p \in Paths |-> NoFile], <<>>, <<>>, <<>>, <<>>)

\* The local files at the start: the source file "f" and nothing else.
StartFiles(content) == [p \in Paths |-> IF p = "f" THEN File(content) ELSE NoFile]

ApiIdle ==
    /\ streamer = "none"
    /\ probed = "none"
    /\ lastCall = NoCall
    /\ ncalls = 0
    /\ dlSeq = <<>>
    /\ dlErr = FALSE

CliIdle ==
    /\ argv = NoArgs
    /\ server = NoEnv
    /\ cliOut = Pending

WorldIdle ==
    /\ entry = ""
    /\ world = NoWorld
    /\ ApiIdle
    /\ CliIdle

ApiInit ==
    /\ entry = "api"
    /\ \E content \in Contents(MaxFileLen) :
           world = World(StartFiles(content), <<>>, <<>>, <<>>, <<>>)
    /\ ApiIdle
    /\ CliIdle

UploadStatuses == {201, 402, 404, 500, 503}
DownloadStatuses == {200, 404, 500}
ChunkSizes == {1, 1024}

\* streamer = Streamer(server)
Construct ==
    /\ entry = "api"
    /\ streamer = "none"
    /\ \E reachable \in BOOLEAN :
           LET c == Streamer_init(world, reachable)
           IN  /\ world' = c.w
               /\ streamer' = IF IsRaise(c.r) THEN "raised" ELSE "instance"
               /\ probed' = IF reachable THEN "ok" ELSE "failed"
               /\ lastCall' = [op |-> "init", r |-> c.r,
                           sent |-> Len(c.w.net) - Len(world.net), resp |-> NoResp]
    /\ UNCHANGED <<planVars, parseVars, entry, ncalls, dlSeq, dlErr, cliVars>>

\* streamer.upload(filepath), on an instance the constructor returned
ApiUpload ==
    /\ entry = "api"
    /\ streamer = "instance"
    /\ ncalls < MaxCalls
    /\ \E filepath \in {"f", "nofile"}, status \in UploadStatuses :
           LET c == Streamer_upload(world, filepath, status)
               sent == Len(c.w.net) - Len(world.net)
           IN  /\ world' = c.w
               /\ lastCall' = [op |-> "upload", r |-> c.r, sent |-> sent,
                           resp |-> IF sent = 0 THEN NoResp
                                    ELSE upload_form_encoded(world, filepath, status).r]
    /\ ncalls' = ncalls + 1
    /\ UNCHANGED <<planVars, parseVars, entry, streamer, probed, dlSeq, dlErr,
                   cliVars>>

\* streamer.download(chunk, dest, chunksize), on an instance the constructor
\* returned
ApiDownload ==
    /\ entry = "api"
    /\ streamer = "instance"
    /\ ncalls < MaxCalls
    /\ \E h \in 0..Len(world.store), dest \in {"", "d", "f", "nodir/d"},
          chunksize \in ChunkSizes, status \in DownloadStatuses :
           LET c == Streamer_download(world, Chunk(h), dest, chunksize, status)
               sent == Len(c.w.net) - Len(world.net)
               resp == IF sent = 0 THEN NoResp ELSE ServerGet(world.store, h, status)
           IN  /\ world' = c.w
               /\ lastCall' = [op |-> "download", r |-> c.r, sent |-> sent,
                           resp |-> resp]
               /\ dlSeq' = IF h # 0 /\ dest = "d" THEN Append(dlSeq, h) ELSE dlSeq
               /\ dlErr' = (dlErr \/ (sent > 0 /\ resp.status_code # 200))
    /\ ncalls' = ncalls + 1
    /\ UNCHANGED <<planVars, parseVars, entry, streamer, probed, cliVars>>

\* The shards a server holds before a download command: the source file's
\* bytes, one shard each.
OneByteShards(content) == [i \in 1..Len(content) |-> <<content[i]>>]

ShardSizeArgs == {<<"1">>, <<"2">>, <<"1", "k">>, <<"1", "x">>}

UploadArgs ==
    [action : {"upload"}, verbose : BOOLEAN, shard_size : ShardSizeArgs,
     file : {"f", "nofile"}, uri : {<<>>}, dest : {""}]

DownloadArgs ==
    [action : {"download"}, verbose : BOOLEAN, shard_size : {<<>>},
     file : {""}, uri : UNION {[1..k -> 1..MaxUris] : k \in 1..MaxUris},
     dest : {"", "d", "f", "nodir/d"}]

CliInit ==
    /\ entry = "cli"
    /\ argv \in UploadArgs \cup DownloadArgs
    /\ server \in [reachable : BOOLEAN, failAt : 0..MaxUris]
    /\ \E content \in Contents(MaxFileLen) :
           world = World(StartFiles(content),
                     IF argv.action = "download" THEN OneByteShards(content)
                     ELSE <<>>,
                     <<>>, <<>>, <<>>)
    /\ cliOut = Pending
    /\ ApiIdle

\* One run of main().
Main ==
    /\ entry = "cli"
    /\ cliOut = Pending
    /\ LET m == main(world, argv, server)
       IN  /\ world' = m.w
           /\ cliOut' = m.r
    /\ UNCHANGED <<planVars, parseVars, entry, apiVars, argv, server>>

Init ==
    /\ PlanIdle
    /\ ParseIdle
    /\ (ApiInit \/ CliInit)

Next == Construct \/ ApiUpload \/ ApiDownload \/ Main

\* -------------------------------------------------------------------- claims

RECURSIVE SumOfLengths(_, _)
SumOfLengths(ranges, file_size) ==
    IF Len(ranges) = 0 THEN 0
    ELSE (Min(ranges[1][2], file_size) - ranges[1][1])
         + SumOfLengths(Tail(ranges), file_size)

\* C1: for fileSize > 0 and shardSize > 0 the ranges calculate_shards returns,
\* each end clamped to fileSize, start at 0, are each non-empty and no longer
\* than shardSize, each start where the one before ends (so they ascend and
\* do not overlap), end at fileSize, and their lengths sum to fileSize.
C1_RangesTileFile ==
    (planOut.kind = "list" /\ planIn.file_size > 0 /\ planIn.shard_size > 0) =>
        LET S == planOut.value
            F == planIn.file_size
            end(i) == Min(S[i][2], F)
        IN  /\ Len(S) >= 1
            /\ S[1][1] = 0
            /\ \A i \in 1..Len(S) : S[i][1] < end(i)
            /\ \A i \in 1..Len(S) : S[i][2] - S[i][1] <= planIn.shard_size
            /\ \A i \in 1..(Len(S) - 1) : S[i + 1][1] = end(i)
            /\ end(Len(S)) = F
            /\ SumOfLengths(S, F) = F

\* A plan of several ranges whose last nominal end lies past the end of file.
C1_Witness ==
    /\ planOut.kind = "list"
    /\ Len(planOut.value) >= 2
    /\ planOut.value[Len(planOut.value)][2] > planIn.file_size

IsTransfer(req) == req.op \in {"POST", "GET"}
Transfers(net) == SelectSeq(net, IsTransfer)
IsPost(req) == req.op = "POST"
Posts(net) == SelectSeq(net, IsPost)
IsFileError(r) == r.kind = "raise" /\ r.exc = "FileError"
CliDone == entry = "cli" /\ cliOut.kind # "pending"

\* C2: an upload command for a file of size S > 0 and a shard size that does
\* not divide S, against a reachable server that accepts every shard, sends
\* exactly ceil(S / shardSize) upload requests, the i-th carrying the bytes
\* [(i-1)*shardSize, i*shardSize) of the file clamped to its end, so the last
\* carries S mod shardSize bytes.
C2_UploadSendsSlices ==
    (/\ CliDone
     /\ argv.action = "upload"
     /\ argv.file = "f"
     /\ parse_shard_size(argv.shard_size).kind = "int"
     /\ server.reachable
     /\ server.failAt = 0) =>
        LET data == world.fs["f"].data
            S == Len(data)
            size == parse_shard_size(argv.shard_size).value
            posts == Posts(world.net)
        IN  (size > 0 /\ S > 0 /\ S % size # 0) =>
                /\ Len(posts) = (S + size - 1) \div size
                /\ \A i \in 1..Len(posts) :
                       posts[i].body =
                           SubSeq(data, (i - 1) * size + 1, Min(i * size, S))
                /\ Len(posts[Len(posts)].body) = S % size

RECURSIVE Concat(_)
Concat(seqs) == IF Len(seqs) = 0 THEN <<>> ELSE Head(seqs) \o Concat(Tail(seqs))

\* C3: once every shard the uploads of the source file produced has been
\* downloaded, in upload order and with no refusal by the server, to the one
\* destination "d", that file holds the shards' bytes one after the other
\* and equals the source file.
C3_RoundTrip ==
    (/\ entry = "api"
     /\ Len(world.store) >= 1
     /\ dlSeq = [i \in 1..Len(world.store) |-> i]
     /\ ~dlErr) =>
        /\ world.fs["d"].exists
        /\ world.fs["d"].data = Concat(world.store)
        /\ world.fs["d"].data = world.fs["f"].data

IsResponseError(r, msg) ==
    r.kind = "raise" /\ r.exc = "ResponseError" /\ r.msg = msg

\* C4: Streamer.upload answers 201 with the shard parsed from the body, 402,
\* 404 and 500 with ResponseError of the fixed messages, every other status
\* with a ResponseError carrying the status, the reason and the body text;
\* only 201 returns a shard.
C4_UploadClassification ==
    (lastCall.op = "upload" /\ lastCall.sent > 0) =>
        LET resp == lastCall.resp
            r == lastCall.r
        IN  /\ (resp.status_code = 201) =>
                   (r.kind = "chunk" /\ r.filehash = resp.text.filehash)
            /\ (resp.status_code = 402) => IsResponseError(r, "Payment required.")
            /\ (resp.status_code = 404) => IsResponseError(r, "API call not found.")
            /\ (resp.status_code = 500) => IsResponseError(r, "Server error.")
            /\ (resp.status_code \notin {201, 402, 404, 500}) =>
                   /\ r.kind = "raise"
                   /\ r.exc = "ResponseError"
                   /\ r.status = resp.status_code
                   /\ r.reason = resp.reason
                   /\ r.text = resp.text
            /\ (resp.status_code # 201) => r.kind # "chunk"

\* C5: the ResponseError of an upload the server answered with 500 holds the
\* status 500 and the body text the server sent.
C5_ServerErrorCarriesBody ==
    (lastCall.op = "upload" /\ lastCall.resp.status_code = 500) =>
        /\ lastCall.r.kind = "raise"
        /\ lastCall.r.exc = "ResponseError"
        /\ lastCall.r.status = 500
        /\ lastCall.r.text = lastCall.resp.text

\* C6: Streamer.download returns True only for a 200 response and raises
\* ResponseError for every other status.
C6_DownloadRaisesOnNon200 ==
    (lastCall.op = "download" /\ lastCall.sent > 0) =>
        /\ (lastCall.r.kind = "True") => (lastCall.resp.status_code = 200)
        /\ (lastCall.resp.status_code # 200) =>
               (lastCall.r.kind = "raise" /\ lastCall.r.exc = "ResponseError")

\* C7 as stated: when a call or a command ends in FileError, no request at
\* all, the connectivity probe included, has been sent.
C7_NoRequestBeforeFileError ==
    /\ (entry = "api" /\ IsFileError(lastCall.r)) => world.net = <<>>
    /\ (CliDone /\ IsFileError(cliOut)) => world.net = <<>>

\* C7 as amended: a Streamer call that ends in FileError has itself sent no
\* request, and a command that ends in FileError has sent no upload or
\* download request; the connectivity probe of the constructor may have gone
\* out before.
C7_NoTransferBeforeFileError ==
    /\ (entry = "api" /\ IsFileError(lastCall.r)) => lastCall.sent = 0
    /\ (CliDone /\ IsFileError(cliOut)) => Transfers(world.net) = <<>>

\* A download refused with FileError because its destination exists, after
\* the probe and an earlier download went out.
C7_Witness ==
    /\ entry = "api"
    /\ lastCall.op = "download"
    /\ IsFileError(lastCall.r)
    /\ lastCall.r.msg = "%s already exists"
    /\ Len(world.net) >= 2

\* C8: a failed probe makes the constructor raise ConnectError and leaves no
\* instance: no upload or download call is made, no transfer request is sent
\* and no shard is created; calls, transfers and shards exist only after a
\* successful probe returned the instance.
C8_FailedProbeUnusable ==
    /\ (probed = "failed") =>
           /\ streamer = "raised"
           /\ lastCall.op = "init"
           /\ lastCall.r.kind = "raise"
           /\ lastCall.r.exc = "ConnectError"
    /\ (entry = "api" /\ (ncalls > 0 \/ Transfers(world.net) # <<>>
                          \/ world.store # <<>>)) =>
           (probed = "ok" /\ streamer = "instance")
    /\ (CliDone /\ ~server.reachable /\ world.net # <<>>) =>
           /\ cliOut.kind = "raise"
           /\ cliOut.exc = "ConnectError"
           /\ Transfers(world.net) = <<>>

\* The constructor raised ConnectError after a failed probe.
C8_Witness ==
    /\ probed = "failed"
    /\ streamer = "raised"
    /\ world.net = <<Probe>>

\* The size strings the documentation of parse_shard_size accepts, and the
\* byte count of each.
ValidSize(size) ==
    \/ isdigit(size)
    \/ /\ Len(size) >= 2
       /\ isdigit(SubSeq(size, 1, Len(size) - 1))
       /\ Lower(size[Len(size)]) \in {"b", "k", "m"}

ByteCount(size) ==
    IF isdigit(size) THEN DecimalValue(size)
    ELSE DecimalValue(SubSeq(size, 1, Len(size) - 1))
         * (CASE Lower(size[Len(size)]) = "b" -> 1
              [] Lower(size[Len(size)]) = "k" -> 1024
              [] Lower(size[Len(size)]) = "m" -> 1024 * 1024)

\* C9: parse_shard_size returns the byte count of a valid size string and
\* fails with InvalidSizeFormat when the string ends in any other character.
C9_ParseOrFail ==
    (parseOut.kind # "pending") =>
        /\ ValidSize(parseIn) =>
               (parseOut.kind = "int" /\ parseOut.value = ByteCount(parseIn))
        /\ (/\ Len(parseIn) > 0
            /\ ~isdigit(parseIn)
            /\ Lower(parseIn[Len(parseIn)]) \notin {"b", "k", "m"}) =>
               (parseOut.kind = "raise" /\ parseOut.exc = "InvalidSizeFormat")

IsStart(line) ==
    line.msg \in {"Downloading file %d...", "Downloading file %s..."}
Started(out) == SelectSeq(out, IsStart)
IsSuccess(line) ==
    line.msg \in {"upstream download --uri", "Downloaded to %s."}
SuccessPrinted(out) == SelectSeq(out, IsSuccess) # <<>>

InitPlan == PlanInit /\ ParseIdle /\ WorldIdle
NextPlan == Plan
SpecPlan == InitPlan /\ [][NextPlan]_vars

InitParse == ParseInit /\ PlanIdle /\ WorldIdle
NextParse == Parse
SpecParse == InitParse /\ [][NextParse]_vars

Spec == Init /\ [][Next]_vars

=============================================================================
